---- MODULE Spec2Model ----
(***************************************************************************)
(* NAV job-feed ingestion: the feed walker (nav_client.py), the sync       *)
(* orchestrator (main.py) and the persistence engine (db_writer.py).       *)
(*                                                                         *)
(* Python values are encoded so that every field has one TLA+ type:        *)
(*   None / "" for a string field  -> ""                                   *)
(*   None for a page id or a limit -> 0   (both are falsy in the code)     *)
(*   a date string                 -> an integer: n >= 1 is an ISO string  *)
(*     that parses to the instant n, 0 is an absent value, -1 is a string  *)
(*     datetime.fromisoformat rejects.                                     *)
(***************************************************************************)
EXTENDS Integers, Sequences, FiniteSets, Bags, TLC

VARIABLES
    db,          \* the relational store: nav_jobs and the four child tables
    clock,       \* datetime.now(), advanced by every save_job call of SpecDB
    latest,      \* history: per identity, the detail record committed last
    lastCall,    \* history: identity and outcome of the previous save_job
    nSaves,      \* number of save_job calls made (bounded by MaxSaves)
    feed_state,  \* the rows of table nav_feed_state (the persisted cursor)
    pc,          \* where main() stands: "idle" between two runs
    args,        \* the options of the run that main() still reads
    gen,         \* the generator fetch_feed_pages: its arguments and progress
    page,        \* page_data, the feed page last yielded by the generator
    attempt,     \* _make_request's loop variable for the page request
    futures,     \* future_to_item: one submitted detail fetch per position
    consumed,    \* the futures as_completed has handed to the loop body
    fetched_count,
    skipped_count,
    run,         \* history of the current run and how the previous one ended
    txn,         \* the open transaction of update_feed_state, if any
    observed,    \* history: what a concurrent reader's last SELECT returned
    boot         \* the startup of main(): its configuration and how it ended

dbvars == <<db, clock, latest, lastCall, nSaves>>
runvars == <<feed_state, pc, args, gen, page, attempt, futures, consumed,
             fetched_count, skipped_count, run>>
curvars == <<txn, observed>>
vars == <<db, clock, latest, lastCall, nSaves, feed_state, pc, args, gen, page,
          attempt, futures, consumed, fetched_count, skipped_count, run, txn,
          observed, boot>>

----------------------------------------------------------------------------
(* Bounds *)
MaxChild == 2     \* length of each child collection of a generated record
MaxSaves == 3     \* save_job calls in one behaviour of SpecDB
NumPages == 3     \* pages in the upstream feed chain
MaxLimit == 2     \* largest --limit a run is given

(* Program constants *)
MAX_WORKERS == 10
retries == 3

----------------------------------------------------------------------------
(* Small helpers *)
SeqsUpTo(S, n) == UNION {[1..k -> S] : k \in 0..n}

Range(s) == {s[i] : i \in 1..Len(s)}

\* The rows of one executemany INSERT, as a bag.
SeqToBag(s) == [x \in Range(s) |-> Cardinality({i \in 1..Len(s) : s[i] = x})]

\* The indices a "seen = set()" loop keeps: the first occurrence of each key.
FirstOccurrences(keys) ==
    SelectSeq([i \in 1..Len(keys) |-> i],
              LAMBDA i : \A j \in 1..(i - 1) : keys[j] # keys[i])

----------------------------------------------------------------------------
(* db_writer.py: the pure part of the persistence engine *)

\* parse_dt: None for a missing or unparsable string, else the instant.
parse_dt(s) == IF s >= 1 THEN s ELSE 0

\* Python "a or b" on two parsed dates.
OrElse(a, b) == IF a # 0 THEN a ELSE b

NoLoc == [address |-> "", city |-> "", postalCode |-> "", country |-> "",
          municipal |-> "", county |-> ""]

\* The named parameters of the INSERT in _upsert_nav_job.
upsert_params(job, now) ==
    LET ad  == job.ad_content
        loc == IF ad.workLocations # <<>> THEN ad.workLocations[1] ELSE NoLoc
    IN  [nav_uuid       |-> job.uuid,
         job_title      |-> ad.title,
         kommune        |-> loc.municipal,
         fylke          |-> loc.county,
         nav_updated_at |-> OrElse(parse_dt(job.sistEndret), parse_dt(ad.updated)),
         status         |-> job.status,
         published      |-> parse_dt(ad.published),
         created_at     |-> now]

on_conflict_update_all(old, new) == new

\* ON CONFLICT (nav_uuid) DO UPDATE SET ...: every column but created_at
\* (and the key) is taken from the new row.
on_conflict_update(old, new) == [new EXCEPT !.created_at = old.created_at]

\* INSERT INTO nav_jobs ... ON CONFLICT (nav_uuid) DO UPDATE.  The table
\* is a set of rows, each child table a bag of rows (tables keep no order).
upsert_nav_job(jobs, job, now) ==
    LET new   == upsert_params(job, now)
        clash == {r \in jobs : r.nav_uuid = new.nav_uuid}
    IN  IF clash # {}
        THEN (jobs \ clash) \cup {on_conflict_update(r, new) : r \in clash}
        ELSE jobs \cup {new}

delete_children_none(rows, uuid) == rows

delete_children_all(rows, uuid) == EmptyBag

\* DELETE FROM <child table> WHERE nav_uuid = :uuid
delete_children(rows, uuid) ==
    [r \in {x \in DOMAIN rows : x.nav_uuid # uuid} |-> rows[r]]

LocKey_without_postal_code(loc) ==
    <<loc.address, loc.city, loc.country, loc.municipal, loc.county>>

\* key = (address, city, postalCode, country, municipal, county)
LocKey(loc) == <<loc.address, loc.city, loc.postalCode, loc.country,
                 loc.municipal, loc.county>>

insert_locations_all(rows, uuid, locations) ==
    rows (+) SeqToBag([k \in 1..Len(locations) |->
               [nav_uuid |-> uuid, address |-> locations[k].address,
                city |-> locations[k].city,
                postal_code |-> locations[k].postalCode,
                county |-> locations[k].county,
                municipal |-> locations[k].municipal,
                country |-> locations[k].country]])

insert_locations(rows, uuid, locations) ==
    LET keys == [i \in 1..Len(locations) |-> LocKey(locations[i])]
        kept == FirstOccurrences(keys)
        data == [k \in 1..Len(kept) |->
                   LET loc == locations[kept[k]]
                   IN  [nav_uuid |-> uuid, address |-> loc.address,
                        city |-> loc.city, postal_code |-> loc.postalCode,
                        county |-> loc.county, municipal |-> loc.municipal,
                        country |-> loc.country]]
    IN  rows (+) SeqToBag(data)

insert_contacts(rows, uuid, contacts) ==
    rows (+) SeqToBag([k \in 1..Len(contacts) |->
               [nav_uuid |-> uuid, name |-> contacts[k].name,
                email |-> contacts[k].email, phone |-> contacts[k].phone,
                role |-> contacts[k].role, title |-> contacts[k].title]])

CatKey(c) == <<c.categoryType, c.code, c.name>>

insert_categories(rows, uuid, categories) ==
    LET keys == [i \in 1..Len(categories) |-> CatKey(categories[i])]
        kept == FirstOccurrences(keys)
    IN  rows (+) SeqToBag([k \in 1..Len(kept) |->
                   LET c == categories[kept[k]]
                   IN  [nav_uuid |-> uuid, category_type |-> c.categoryType,
                        code |-> c.code, name |-> c.name]])

OccKey(o) == <<o.level1, o.level2>>

insert_occupations(rows, uuid, occupations) ==
    LET keys == [i \in 1..Len(occupations) |-> OccKey(occupations[i])]
        kept == FirstOccurrences(keys)
    IN  rows (+) SeqToBag([k \in 1..Len(kept) |->
                   [nav_uuid |-> uuid, level1 |-> occupations[kept[k]].level1,
                    level2 |-> occupations[kept[k]].level2]])

EmptyDb == [nav_jobs |-> {}, nav_job_locations |-> EmptyBag,
            nav_job_contacts |-> EmptyBag, nav_job_categories |-> EmptyBag,
            nav_job_occupations |-> EmptyBag]

\* The statements save_job runs inside "with self.engine.begin() as conn",
\* in the order it runs them.
Statements ==
    <<"upsert_nav_job",
      "delete_locations", "insert_locations",
      "delete_contacts", "insert_contacts",
      "delete_categories", "insert_categories",
      "delete_occupations", "insert_occupations">>

\* The store after statement k of the transaction has run on it.
txn_step(d, job, now, k) ==
    LET ad == job.ad_content
        u  == job.uuid
    IN  CASE k = 1 -> [d EXCEPT !.nav_jobs = upsert_nav_job(@, job, now)]
          [] k = 2 -> [d EXCEPT !.nav_job_locations = delete_children(@, u)]
          [] k = 3 -> [d EXCEPT !.nav_job_locations =
                                    insert_locations(@, u, ad.workLocations)]
          [] k = 4 -> [d EXCEPT !.nav_job_contacts = delete_children(@, u)]
          [] k = 5 -> [d EXCEPT !.nav_job_contacts =
                                    insert_contacts(@, u, ad.contactList)]
          [] k = 6 -> [d EXCEPT !.nav_job_categories = delete_children(@, u)]
          [] k = 7 -> [d EXCEPT !.nav_job_categories =
                                    insert_categories(@, u, ad.categoryList)]
          [] k = 8 -> [d EXCEPT !.nav_job_occupations = delete_children(@, u)]
          [] OTHER -> [d EXCEPT !.nav_job_occupations =
                                    insert_occupations(@, u, ad.occupationCategories)]

\* The uncommitted store the connection sees after the first n statements.
RECURSIVE txn_prefix(_, _, _, _)
txn_prefix(d, job, now, n) ==
    IF n = 0 THEN d ELSE txn_step(txn_prefix(d, job, now, n - 1), job, now, n)

\* All statements ran: leaving the with block commits.
save_job_txn(d, job, now) == txn_prefix(d, job, now, Len(Statements))

rollback_none(before, partial) == partial

\* A statement raised: leaving "with self.engine.begin()" through an
\* exception rolls the transaction back.
rollback(before, partial) == before

\* save_job: returns the store and how the call ended.  A record without an
\* identity returns before any statement.  fail_at = k >= 1: statement k
\* raises after the k - 1 statements before it ran; the transaction is
\* rolled back and the exception propagates to the caller.  fail_at = 0: no
\* statement raises.
save_job(d, job, now, fail_at) ==
    IF job.uuid = "" THEN [db |-> d, outcome |-> "no_uuid"]
    ELSE IF fail_at # 0
    THEN [db |-> rollback(d, txn_prefix(d, job, now, fail_at - 1)),
          outcome |-> "raised"]
    ELSE [db |-> save_job_txn(d, job, now), outcome |-> "committed"]

----------------------------------------------------------------------------
(* Child entries used by the records of the feed and of SpecDB *)

LocA == [address |-> "Storgata 1", city |-> "Oslo", postalCode |-> "0155",
         country |-> "NORGE", municipal |-> "OSLO", county |-> "OSLO"]
LocB == [LocA EXCEPT !.postalCode = "0182"]
ConA == [name |-> "Kari", email |-> "kari@example.no", phone |-> "",
         role |-> "", title |-> "HR"]
CatA == [categoryType |-> "STYRK08", code |-> "2512", name |-> "Utvikler"]
CatB == [CatA EXCEPT !.name = "Systemutvikler"]
OccA == [level1 |-> "IT", level2 |-> "Utvikling"]

ConB == [ConA EXCEPT !.email = "ola@example.no"]
OccB == [OccA EXCEPT !.level2 = "Drift"]

----------------------------------------------------------------------------
(* The upstream API: GET /feed, GET /feed/{id}, GET /feedentry/{id}.       *)
(* Pages 1..NumPages are chained by next_id / next_url; page p holds the   *)
(* items 10p+1, 10p+2, ... and its content repeats with period three.      *)
(* One more page, WidePage, holds one item more than the pool has workers  *)
(* and links to page 1; only a request that names it reaches it.           *)

FeedUrl(id) == [path |-> "/api/v1/feed/", id |-> id]
NoUrl == [path |-> "", id |-> 0]

FirstPage == 1
LastPage == NumPages

WidePage == NumPages + 1
PoolItems == MAX_WORKERS + 1

ItemRef(id, date) == [id |-> id, date_modified |-> date]

\* Summaries: dates 5 and 15 lie before and after the threshold 10 a run may
\* be given; 0 is a missing date_modified, -1 one that does not parse.
ItemsOfPage(p) ==
    CASE p = WidePage -> [j \in 1..PoolItems |-> ItemRef(100 * p + j, 15)]
      [] p % 3 = 1 -> <<ItemRef(10 * p + 1, 15), ItemRef(10 * p + 2, 0),
                        ItemRef(10 * p + 1, 15)>>
      [] p % 3 = 2 -> <<ItemRef(10 * p + 1, 15), ItemRef(10 * p + 2, -1)>>
      [] OTHER     -> <<ItemRef(10 * p + 1, 5), ItemRef(10 * p + 2, 5),
                        ItemRef(10 * p + 3, 5)>>

FeedPage(p) ==
    [id       |-> p,
     next_id  |-> IF p = WidePage THEN 1 ELSE IF p < NumPages THEN p + 1 ELSE 0,
     next_url |-> IF p = WidePage THEN FeedUrl(1)
                  ELSE IF p < NumPages THEN FeedUrl(p + 1) ELSE NoUrl,
     items    |-> ItemsOfPage(p)]

NoPage == [id |-> 0, next_id |-> 0, next_url |-> NoUrl, items |-> <<>>]

Ad(pub, upd, locs) ==
    [title |-> "Utvikler", published |-> pub, updated |-> upd,
     workLocations |-> locs, contactList |-> <<ConA>>,
     categoryList |-> <<CatA>>, occupationCategories |-> <<OccA>>]

Entry(u, status, has_ad, ad) ==
    [uuid |-> u, status |-> status, sistEndret |-> 0, has_ad |-> has_ad,
     ad_content |-> ad]

\* The detail record GET /feedentry/{id} returns.
FeedEntry(id) ==
    LET k == IF id > 100 THEN 3 ELSE (id \div 10) % 3
        n == id % 10
        u == ToString(id)
    IN  CASE id > 100       -> Entry(u, "INACTIVE", TRUE, Ad(15, 0, <<LocA>>))
          [] k = 1 /\ n = 1 -> Entry(u, "ACTIVE", TRUE, Ad(15, 0, <<LocA, LocA>>))
          [] k = 1 /\ n = 2 -> Entry(u, "INACTIVE", TRUE, Ad(15, 0, <<LocA>>))
          [] k = 2 /\ n = 1 -> Entry("", "ACTIVE", TRUE, Ad(15, 0, <<LocA>>))
          [] k = 2 /\ n = 2 -> Entry(u, "ACTIVE", TRUE, Ad(5, 15, <<LocA, LocB>>))
          [] k = 0 /\ n = 1 -> Entry(u, "ACTIVE", TRUE, Ad(15, 0, <<LocB>>))
          [] k = 0 /\ n = 2 -> Entry(u, "ACTIVE", TRUE, Ad(0, 5, <<LocA>>))
          [] OTHER          -> Entry(u, "ACTIVE", FALSE, Ad(0, 0, <<>>))

\* The requests that can fail: any request for a feed page, the detail
\* request of the second item of the pages of kind 2 and that of the third
\* item of the pages of kind 0.
FlakyFetch(id) ==
    /\ id < 100
    /\ \/ (id \div 10) % 3 = 2 /\ id % 10 = 2
       \/ (id \div 10) % 3 = 0 /\ id % 10 = 3

\* The commits on which the storage layer can raise: the first item of the
\* pages of kind 1.
FlakyStore(id) == id < 100 /\ (id \div 10) % 3 = 1 /\ id % 10 = 1

\* The values of --start-date: none, or the threshold 10.
FilterDates == {0, 10}

----------------------------------------------------------------------------
(* db_writer.py: the feed-state table *)

\* SELECT next_url ... ORDER BY id DESC LIMIT 1; None without a row.
get_last_feed_state(table) ==
    IF table = <<>> THEN [found |-> FALSE, next_url |-> NoUrl]
    ELSE [found |-> TRUE, next_url |-> table[Len(table)].next_url]

\* DELETE FROM nav_feed_state
feed_delete_all(table) == <<>>

\* INSERT INTO nav_feed_state (next_url, ...) VALUES (:next_url, ...)
feed_insert(table, next_url) == Append(table, [next_url |-> next_url])

\* update_feed_state as its committed effect: the DELETE and the INSERT of
\* one "with self.engine.begin()" transaction.
update_feed_state(table, next_url) ==
    feed_insert(feed_delete_all(table), next_url)

visible_dirty(committed, work) == work

\* What a SELECT on another connection reads while a transaction is open:
\* the committed rows, not the rows the transaction is working on.
visible(committed, work) == committed

----------------------------------------------------------------------------
(* main.py: the pure steps of the orchestrator *)

\* next_url.split("/feed/")[-1] when "/feed/" is in next_url, else next_url.
page_id_of(next_url) == next_url.id

resolve_start_anchor_only(a, state) ==
    IF a.start_page_id # 0
    THEN [kind |-> "override", start_page_id |-> a.start_page_id, last |-> FALSE]
    ELSE [kind |-> "last", start_page_id |-> 0, last |-> TRUE]

resolve_start_cursor_first(a, state) ==
    IF state.found /\ state.next_url # NoUrl
    THEN [kind |-> "cursor", start_page_id |-> page_id_of(state.next_url),
          last |-> FALSE]
    ELSE IF a.start_page_id # 0
    THEN [kind |-> "override", start_page_id |-> a.start_page_id, last |-> FALSE]
    ELSE IF a.start_from_beginning /\ a.reset
    THEN [kind |-> "begin", start_page_id |-> 0, last |-> FALSE]
    ELSE [kind |-> "last", start_page_id |-> 0, last |-> TRUE]

\* "Determine start point" (main.py 73-95): the arguments of fetch_feed_pages.
resolve_start(a, state) ==
    IF a.start_page_id # 0
    THEN [kind |-> "override", start_page_id |-> a.start_page_id, last |-> FALSE]
    ELSE IF state.found /\ state.next_url # NoUrl
    THEN [kind |-> "cursor", start_page_id |-> page_id_of(state.next_url),
          last |-> FALSE]
    ELSE IF a.start_from_beginning /\ a.reset
    THEN [kind |-> "begin", start_page_id |-> 0, last |-> FALSE]
    ELSE [kind |-> "last", start_page_id |-> 0, last |-> TRUE]

last_attempt_off_by_one(n) == n = retries

\* _make_request, "if attempt == retries - 1": the failed attempt with loop
\* index n is the last one and re-raises.
last_attempt(n) == n = retries - 1

\* get_feed_page(page_id, last): the page the request names.
get_feed_page(page_id, last) ==
    IF page_id # 0 THEN page_id ELSE IF last THEN LastPage ELSE FirstPage

next_request_to_last(g, pg) ==
    IF ~g.started THEN get_feed_page(g.start_page_id, g.last)
    ELSE IF pg.next_id = 0 THEN 0 ELSE LastPage

\* The page the generator requests when it is resumed (0: it returns).
next_request(g, pg) ==
    IF ~g.started THEN get_feed_page(g.start_page_id, g.last)
    ELSE pg.next_id

distinct_items_all(items) == items

\* The items of the page with the repeats of an id dropped (seen_ids_in_batch).
distinct_items(items) ==
    LET ids  == [i \in 1..Len(items) |-> items[i].id]
        kept == FirstOccurrences(ids)
    IN  [k \in 1..Len(kept) |-> items[kept[k]]]

summary_never_old(item, filter_date) == FALSE

\* The summary pre-filter (main.py 123-132).
summary_too_old(item, filter_date) ==
    /\ filter_date # 0
    /\ item.date_modified # 0
    /\ item.date_modified >= 1          \* fromisoformat did not raise
    /\ item.date_modified < filter_date

items_to_fetch(pg, filter_date) ==
    SelectSeq(distinct_items(pg.items),
              LAMBDA it : ~summary_too_old(it, filter_date))

prefilter_skipped(pg, filter_date) ==
    Len(distinct_items(pg.items)) - Len(items_to_fetch(pg, filter_date))

\* date_str = ad.get("published") or ad.get("updated")
detail_date(ad) == IF ad.published # 0 THEN ad.published ELSE ad.updated

detail_too_old(details, filter_date) ==
    /\ filter_date # 0
    /\ detail_date(details.ad_content) # 0
    /\ detail_date(details.ad_content) >= 1
    /\ detail_date(details.ad_content) < filter_date

verdict_status_only(details, filter_date) ==
    IF details.status = "INACTIVE" THEN "skip_status"
    ELSE IF detail_too_old(details, filter_date) THEN "skip_date"
    ELSE "save"

\* What the loop body does with a fetched detail record (main.py 161-186).
verdict(details, filter_date) ==
    IF details.status = "INACTIVE" \/ ~details.has_ad THEN "skip_status"
    ELSE IF detail_too_old(details, filter_date) THEN "skip_date"
    ELSE "save"

\* args.limit and fetched_count >= args.limit
limit_reached(limit, count) == limit # 0 /\ count >= limit

first_consumed(futs, cons) == cons # {}

\* as_completed is exhausted: every future was handed to the loop body.
all_consumed(futs, cons) == cons = DOMAIN futs

next_locator_current(pg) == FeedUrl(pg.id)

\* The locator written after a fully processed page (main.py 219-226).
next_locator(pg) == IF pg.next_url # NoUrl THEN pg.next_url ELSE FeedUrl(pg.id)

resume_at_next(pg) == IF pg.next_url # NoUrl THEN pg.next_url ELSE FeedUrl(pg.id)

\* The locator written when the limit stops the run (main.py 205-207).
resume_locator(pg) == FeedUrl(pg.id)

----------------------------------------------------------------------------
(* The startup of main(): configuration, schema calls, date argument *)

\* required_columns of ensure_feed_state_schema and of
\* ensure_job_schema_enhancements.
feed_state_required == {"title", "home_page_url", "feed_url", "description"}

job_required == {"published", "job_title_official", "employer_orgnr",
                 "employer_description", "employer_homepage"}

\* _ensure_columns: ALTER TABLE ... ADD COLUMN for every column not there.
ensure_columns(existing, columns) == existing \cup columns

\* The methods class DBWriter defines.
DBWriterMethods ==
    {"__init__", "save_job", "_upsert_nav_job", "_insert_locations",
     "_insert_contacts", "_insert_categories", "_insert_occupations",
     "ensure_feed_state_schema", "ensure_job_schema_enhancements",
     "_ensure_columns", "get_last_feed_state", "update_feed_state"}

\* main.py 23-55, from the environment to "Starting job sync...": how the
\* startup ends and the columns the two tables have then.  start_date: 0 when
\* the option is absent, -1 when strptime raises ValueError on it.
startup(b) ==
    IF b.api_token = "" THEN [b EXCEPT !.done = TRUE, !.outcome = "no_token"]
    ELSE IF b.db_url = "" THEN [b EXCEPT !.done = TRUE, !.outcome = "no_db_url"]
    ELSE
      LET fs == ensure_columns(b.feed_state_columns, feed_state_required)
          jc == ensure_columns(b.job_columns, job_required)
          c  == [b EXCEPT !.done = TRUE,
                          !.feed_state_columns = fs, !.job_columns = jc]
      IN  IF "ensure_materialized_views" \notin DBWriterMethods
          THEN [c EXCEPT !.outcome = "AttributeError"]
          ELSE IF c.start_date = -1
          THEN [c EXCEPT !.outcome = "invalid_date"]
          ELSE [c EXCEPT !.outcome = "resolving"]

----------------------------------------------------------------------------
(* Spec: runs of main(), one after the other, against the feed and store *)

Uuids == {"u1", "u2"}

\* History of a run: how its start was resolved; the locator of the cursor
\* it found when it was given no override (0: none); the pages it fetched; the
\* items whose detail it requested; the items it committed; its cursor
\* writes; why it stopped; and, for a run started without override and
\* without reset, the page on which the limit stopped the run before it (0:
\* that run was not stopped by the limit).
\* How the previous run ended when a page-level error aborted it: the page
\* that was being requested or processed (0: the run was not aborted), and
\* whether that run had started from the cursor or had written the cursor.
NoAbort == [page |-> 0, tracked |-> FALSE]

\* opts: the options start resolution read and the page of the cursor it
\* found after the reset step (0: none), and, for a run started without
\* override and without reset, how the run before it was aborted; kept until
\* the first page of the run has been pre-filtered.
NoOpts == [given |-> FALSE, reset |-> FALSE, start_from_beginning |-> FALSE,
           start_page_id |-> 0, cursor |-> 0, prev_abort |-> NoAbort]

NoRun == [kind |-> "none", resumed_from |-> 0, pages |-> <<>>,
          submitted |-> {}, committed |-> {}, writes |-> <<>>,
          stop |-> "none", prev_limit_page |-> 0, opts |-> NoOpts,
          prev_abort |-> NoAbort]

NoGen == [start_page_id |-> 0, last |-> FALSE, started |-> FALSE]

IdleRun ==
    /\ feed_state = <<>>
    /\ pc = "idle"
    /\ args = [limit |-> 0, filter_date |-> 0]
    /\ gen = NoGen
    /\ page = NoPage
    /\ attempt = 0
    /\ futures = <<>>
    /\ consumed = {}
    /\ fetched_count = 0
    /\ skipped_count = 0
    /\ run = NoRun

NoTxn == [phase |-> "none", next_url |-> NoUrl, work |-> <<>>]

NoRead == [made |-> FALSE, rows |-> 0, next_url |-> NoUrl, phase |-> "none",
           committed |-> 0]

IdleCursor ==
    /\ txn = NoTxn
    /\ observed = NoRead

IdleDB ==
    /\ db = EmptyDb
    /\ clock = 1
    /\ latest = [u \in Uuids |-> <<>>]
    /\ lastCall = [uuid |-> "", outcome |-> "none", repeat |-> FALSE]
    /\ nSaves = 0

\* Spec and the specifications derived from it describe main() from line 55
\* on, for a configuration that is complete and a startup that returned.
PastStartup ==
    boot = [api_token |-> "token", db_url |-> "url", start_date |-> 0,
            feed_state_columns |-> feed_state_required,
            job_columns |-> job_required,
            done |-> TRUE, outcome |-> "resolving"]

Init == IdleDB /\ IdleRun /\ IdleCursor /\ PastStartup

ArgSets ==
    [limit : 0..MaxLimit, reset : BOOLEAN, start_from_beginning : BOOLEAN,
     filter_date : FilterDates, start_page_id : 0..NumPages]

\* main.py 23-97: options, reset, read of the cursor, start resolution.  The
\* configuration is complete and the schema calls of main.py 39-41 return.
StartRun(a) ==
    /\ pc = "idle"
    /\ LET table == IF a.reset THEN <<>> ELSE feed_state
           state == get_last_feed_state(table)
           g     == resolve_start(a, state)
       IN  /\ feed_state' = table
           /\ gen' = [start_page_id |-> g.start_page_id, last |-> g.last,
                      started |-> FALSE]
           /\ run' = [NoRun EXCEPT
                        !.kind = g.kind,
                        !.resumed_from =
                            IF a.start_page_id = 0 /\ table # <<>>
                            THEN table[Len(table)].next_url.id ELSE 0,
                        !.stop = "running",
                        !.opts = [given |-> TRUE, reset |-> a.reset,
                                  start_from_beginning |-> a.start_from_beginning,
                                  start_page_id |-> a.start_page_id,
                                  cursor |-> IF table # <<>>
                                             THEN table[Len(table)].next_url.id
                                             ELSE 0,
                                  prev_abort |->
                                      IF a.start_page_id = 0 /\ ~a.reset
                                      THEN run.prev_abort ELSE NoAbort],
                        !.prev_limit_page =
                            IF a.start_page_id = 0 /\ ~a.reset
                            THEN run.prev_limit_page ELSE 0]
    /\ args' = [limit |-> a.limit, filter_date |-> a.filter_date]
    /\ pc' = "next"
    /\ page' = NoPage
    /\ attempt' = 0
    /\ futures' = <<>>
    /\ consumed' = {}
    /\ fetched_count' = 0
    /\ skipped_count' = 0
    /\ UNCHANGED <<dbvars, curvars, boot>>

\* fetch_feed_pages resumed, the request answered (nav_client.py 69-77, 86).
PageRequestOk ==
    /\ pc = "next"
    /\ next_request(gen, page) # 0
    /\ page' = FeedPage(next_request(gen, page))
    /\ gen' = [gen EXCEPT !.started = TRUE]
    /\ attempt' = 0
    /\ run' = [run EXCEPT !.pages = Append(@, next_request(gen, page))]
    /\ pc' = "page"
    /\ UNCHANGED <<dbvars, curvars, boot, feed_state, args, futures, consumed, fetched_count,
                   skipped_count>>

\* One failed attempt of _make_request for a page (nav_client.py 29-34): the
\* last one re-raises, which ends the run in main.py 246-247.
PageRequestFail ==
    /\ pc = "next"
    /\ next_request(gen, page) # 0
    /\ IF last_attempt(attempt)
       THEN /\ pc' = "exit"
            /\ attempt' = 0
            /\ run' = [run EXCEPT !.stop = "aborted"]
       ELSE /\ attempt' = attempt + 1
            /\ UNCHANGED <<pc, run>>
    /\ UNCHANGED <<dbvars, curvars, boot, feed_state, args, gen, page, futures, consumed,
                   fetched_count, skipped_count>>

\* The generator returns: the page it yielded last has no next_id
\* (nav_client.py 80-82), so the for loop of main.py 108 ends.
WalkerStop ==
    /\ pc = "next"
    /\ next_request(gen, page) = 0
    /\ run' = [run EXCEPT !.stop = "exhausted"]
    /\ pc' = "exit"
    /\ UNCHANGED <<dbvars, curvars, boot, feed_state, args, gen, page, attempt, futures,
                   consumed, fetched_count, skipped_count>>

\* main.py 109-152: pre-filter of the page, then either the shortcut for a
\* page with nothing to fetch or the submission of every detail fetch.
ProcessPage ==
    /\ pc = "page"
    /\ LET todo == items_to_fetch(page, args.filter_date)
       IN  /\ skipped_count' = skipped_count + prefilter_skipped(page, args.filter_date)
           /\ IF todo = <<>>
              THEN /\ IF page.next_url # NoUrl
                      THEN /\ feed_state' = update_feed_state(feed_state, page.next_url)
                           /\ run' = [run EXCEPT !.opts = NoOpts, !.writes =
                                        Append(@, [at |-> page.id,
                                                   to |-> page.next_url.id])]
                      ELSE /\ run' = [run EXCEPT !.opts = NoOpts]
                           /\ UNCHANGED feed_state
                   /\ pc' = "next"
                   /\ UNCHANGED <<futures, consumed>>
              ELSE /\ futures' = [k \in 1..Len(todo) |->
                                    [id |-> todo[k].id, st |-> "queued",
                                     attempt |-> 0]]
                   /\ consumed' = {}
                   /\ run' = [run EXCEPT !.opts = NoOpts, !.submitted =
                                @ \cup {todo[k].id : k \in 1..Len(todo)}]
                   /\ pc' = "collect"
                   /\ UNCHANGED feed_state
    /\ UNCHANGED <<dbvars, curvars, boot, args, gen, page, attempt, fetched_count>>

Running == {i \in DOMAIN futures : futures[i].st = "running"}

worker_unbounded(running) == TRUE

\* ThreadPoolExecutor(max_workers=MAX_WORKERS): a worker is idle or can
\* still be created.
worker_available(running) == Cardinality(running) < MAX_WORKERS

\* The call at the head of the executor's work queue: of the calls submitted
\* for the page, in the order of items_to_fetch, the first not yet taken.
queue_head(futs) ==
    LET left == {k \in DOMAIN futs : futs[k].st = "queued"}
    IN  IF left = {} THEN 0
        ELSE CHOOSE k \in left : \A j \in left : k <= j

\* A pool worker takes the submitted call at the head of the queue.
StartFetch(i) ==
    /\ pc \in {"collect", "after", "exit"}
    /\ futures[i].st = "queued"
    /\ i = queue_head(futures)
    /\ worker_available(Running)
    /\ futures' = [futures EXCEPT ![i].st = "running"]
    /\ UNCHANGED <<dbvars, curvars, boot, feed_state, pc, args, gen, page, attempt, consumed,
                   fetched_count, skipped_count, run>>

FetchOk_and_save(i) ==
    /\ futures[i].st = "running"
    /\ futures' = [futures EXCEPT ![i].st = "ok"]
    /\ db' = save_job(db, FeedEntry(futures[i].id), clock, 0).db
    /\ UNCHANGED <<clock, latest, lastCall, nSaves, curvars, boot, feed_state,
                   pc, args, gen, page, attempt, consumed, fetched_count,
                   skipped_count, run>>

\* get_feed_entry: an attempt of _make_request succeeds.
FetchOk(i) ==
    /\ futures[i].st = "running"
    /\ futures' = [futures EXCEPT ![i].st = "ok"]
    /\ UNCHANGED <<dbvars, curvars, boot, feed_state, pc, args, gen, page, attempt, consumed,
                   fetched_count, skipped_count, run>>

\* get_feed_entry: an attempt of _make_request fails; the last one re-raises.
FetchFail(i) ==
    /\ futures[i].st = "running"
    /\ FlakyFetch(futures[i].id)
    /\ futures' = IF last_attempt(futures[i].attempt)
                  THEN [futures EXCEPT ![i].st = "failed"]
                  ELSE [futures EXCEPT ![i].attempt = @ + 1]
    /\ UNCHANGED <<dbvars, curvars, boot, feed_state, pc, args, gen, page, attempt, consumed,
                   fetched_count, skipped_count, run>>

\* One pass of the loop body for the completed future of item i
\* (main.py 156-199); fail_at: the statement of save_job that raises (0: none).
Consume(i, fail_at) ==
    /\ pc = "collect"
    /\ i \in DOMAIN futures
    /\ i \notin consumed
    /\ futures[i].st \in {"ok", "failed"}
    /\ consumed' = consumed \cup {i}
    /\ LET details == FeedEntry(futures[i].id)
           what == IF futures[i].st = "failed" THEN "error"
                   ELSE verdict(details, args.filter_date)
           r    == save_job(db, details, clock, fail_at)
           saved == what = "save" /\ r.outcome # "raised"
       IN  /\ db' = IF what = "save" THEN r.db ELSE db
           /\ fetched_count' = IF saved THEN fetched_count + 1 ELSE fetched_count
           /\ skipped_count' = IF what \in {"skip_status", "skip_date"}
                               THEN skipped_count + 1 ELSE skipped_count
           /\ run' = IF what = "save" /\ r.outcome = "committed"
                     THEN [run EXCEPT !.committed = @ \cup {futures[i].id}]
                     ELSE run
           /\ pc' = IF saved /\ limit_reached(args.limit, fetched_count + 1)
                    THEN "after"
                    ELSE IF all_consumed(futures, consumed \cup {i}) THEN "after"
                    ELSE "collect"
    /\ UNCHANGED <<clock, latest, lastCall, nSaves, curvars, boot, feed_state, args,
                   gen, page, attempt, futures>>

\* main.py 201-236: after the inner loop, the limit stop or the cursor update.
AfterPage ==
    /\ pc = "after"
    /\ IF limit_reached(args.limit, fetched_count)
       THEN /\ feed_state' = update_feed_state(feed_state, resume_locator(page))
            /\ run' = [run EXCEPT !.writes = Append(@, [at |-> page.id,
                                                         to |-> resume_locator(page).id]),
                                  !.stop = "limit"]
            /\ pc' = "exit"
       ELSE /\ feed_state' = update_feed_state(feed_state, next_locator(page))
            /\ run' = [run EXCEPT !.writes = Append(@, [at |-> page.id,
                                                         to |-> next_locator(page).id])]
            /\ pc' = "next"
    /\ UNCHANGED <<dbvars, curvars, boot, args, gen, page, attempt, futures, consumed,
                   fetched_count, skipped_count>>

\* A statement of update_feed_state raises (the cursor store is unreachable)
\* at the write of the shortcut (main.py 139), of the limit stop (main.py 208)
\* or after the page (main.py 229): the transaction is rolled back and the
\* exception, raised outside the per-item try, ends the run in main.py
\* 246-247.
CursorStoreFail ==
    /\ \/ pc = "after"
       \/ /\ pc = "page"
          /\ items_to_fetch(page, args.filter_date) = <<>>
          /\ page.next_url # NoUrl
    /\ feed_state' = rollback(feed_state, feed_delete_all(feed_state))
    /\ skipped_count' = IF pc = "page"
                        THEN skipped_count + prefilter_skipped(page, args.filter_date)
                        ELSE skipped_count
    /\ run' = [run EXCEPT !.opts = NoOpts, !.stop = "aborted_store"]
    /\ pc' = "exit"
    /\ UNCHANGED <<dbvars, curvars, boot, args, gen, page, attempt, futures, consumed,
                   fetched_count>>

\* Leaving "with ThreadPoolExecutor" waits for every submitted call; then the
\* summary is logged (main.py 238) or the error is (main.py 247), and main()
\* returns: its locals are gone, the store and the cursor stay.
Exit ==
    /\ pc = "exit"
    /\ \A i \in DOMAIN futures : futures[i].st \in {"ok", "failed"}
    /\ pc' = "idle"
    /\ args' = [limit |-> 0, filter_date |-> 0]
    /\ gen' = NoGen
    /\ page' = NoPage
    /\ futures' = <<>>
    /\ consumed' = {}
    /\ fetched_count' = 0
    /\ skipped_count' = 0
    /\ run' = [NoRun EXCEPT
                  !.prev_limit_page = IF run.stop = "limit" THEN page.id ELSE 0,
                  !.prev_abort =
                      [page    |-> CASE run.stop = "aborted" -> next_request(gen, page)
                                     [] run.stop = "aborted_store" -> page.id
                                     [] OTHER -> 0,
                       tracked |-> /\ run.stop \in {"aborted", "aborted_store"}
                                   /\ run.kind = "cursor" \/ run.writes # <<>>]]
    /\ UNCHANGED <<dbvars, curvars, boot, feed_state, attempt>>

Next ==
    \/ \E a \in ArgSets : StartRun(a)
    \/ PageRequestOk
    \/ PageRequestFail
    \/ WalkerStop
    \/ ProcessPage
    \/ \E i \in DOMAIN futures : StartFetch(i)
    \/ \E i \in DOMAIN futures : FetchOk(i)
    \/ \E i \in DOMAIN futures : FetchFail(i)
    \/ \E i \in DOMAIN futures :
         \E fail_at \in (IF FlakyStore(futures[i].id)
                          THEN 0..Len(Statements) ELSE {0}) :
             Consume(i, fail_at)
    \/ AfterPage
    \/ CursorStoreFail
    \/ Exit

Spec == Init /\ [][Next]_vars

----------------------------------------------------------------------------
(* Properties of a run, checked under Spec *)

Last(q) == q[Len(q)]

\* The submitted fetches and the consumed ones by item id.
FutById ==
    [i \in {futures[k].id : k \in DOMAIN futures} |->
        futures[CHOOSE k \in DOMAIN futures : futures[k].id = i]]

ConsumedIds == {futures[k].id : k \in consumed}

CursorAt(id) == feed_state = <<[next_url |-> FeedUrl(id)]>>

\* An item's timestamps: the parsed summary date and
\* the parsed detail date (published, else updated); 0 when there is none.
SummaryTs(it) == IF it.date_modified >= 1 THEN it.date_modified ELSE 0
DetailTs(d) ==
    LET raw == IF d.ad_content.published # 0 THEN d.ad_content.published
               ELSE d.ad_content.updated
    IN  IF raw >= 1 THEN raw ELSE 0

AllItems == UNION {Range(ItemsOfPage(p)) : p \in 1..NumPages}

\* The distinct item ids of a page that pass the summary pre-filter.
PassingIds(pg, filter_date) ==
    {it.id : it \in {x \in Range(pg.items) :
                       ~(filter_date # 0 /\ SummaryTs(x) # 0
                         /\ SummaryTs(x) < filter_date)}}

\* C1: a run started without override on a cursor pointing at L fetches the
\* page at L first and no page that precedes L in the chain.
C1_Resume ==
    (run.resumed_from # 0 /\ run.pages # <<>>) =>
        /\ run.pages[1] = run.resumed_from
        /\ \A k \in 1..Len(run.pages) : run.pages[k] >= run.resumed_from

\* C1 witness: a run resumed from a cursor at page 2 of the chain has
\* walked pages 2 and 3.
C1_Witness == run.resumed_from = 2 /\ run.pages = <<2, 3>>

\* C2: a step that writes the cursor past the page in progress (to its next
\* locator) is taken only when every distinct item of the page that passed
\* the pre-filter has been handed to the loop body, its outcome decided; and
\* a step that fetches the next page is taken only after that write.
C2_PageDoneBeforeCursor ==
    [][ /\ (/\ Len(run'.writes) = Len(run.writes) + 1
             /\ Last(run'.writes).to # Last(run'.writes).at)
            => /\ Last(run'.writes).at = page.id
               /\ CursorAt(page.next_id)'
               /\ PassingIds(page, args.filter_date) \subseteq ConsumedIds
               /\ \A i \in PassingIds(page, args.filter_date) :
                      FutById[i].st \in {"ok", "failed"}
        /\ (Len(run'.pages) = Len(run.pages) + 1 /\ run.pages # <<>>)
            => /\ run.writes # <<>>
               /\ Last(run.writes) = [at |-> Last(run.pages),
                                       to |-> Last(run'.pages)]
      ]_vars

\* C2 witness: the cursor was written past page 1 after both of its
\* fetched items were decided, and page 2 was fetched after that.
C2_Witness ==
    /\ run.pages = <<1, 2>>
    /\ run.writes = <<[at |-> 1, to |-> 2]>>
    /\ run.committed = {11}

EndOfRun == pc = "exit" /\ \A i \in DOMAIN FutById : FutById[i].st \in {"ok", "failed"}

\* C3: a run with limit N >= 1 that ends on the limit or on the end of the
\* feed has committed at most N records, exactly N unless the feed was
\* exhausted first, and reports as saved the number it committed.
C3_LimitExact ==
    (EndOfRun /\ args.limit >= 1 /\ run.stop \in {"limit", "exhausted"}) =>
        /\ Cardinality(run.committed) <= args.limit
        /\ Cardinality(run.committed) = args.limit \/ run.stop = "exhausted"
        /\ fetched_count = Cardinality(run.committed)

\* C4: when the limit stops a run on page P, the cursor points at P itself
\* and the run fetches and writes nothing more; the run that follows from
\* that cursor fetches P first and no page before P.
C4_LimitResume ==
    /\ run.stop = "limit" =>
          /\ pc = "exit"
          /\ CursorAt(Last(run.pages))
          /\ Last(run.writes) = [at |-> Last(run.pages), to |-> Last(run.pages)]
    /\ (run.prev_limit_page # 0 /\ run.pages # <<>>) =>
          /\ run.pages[1] = run.prev_limit_page
          /\ \A k \in 1..Len(run.pages) : run.pages[k] >= run.prev_limit_page

\* C4 witness: the limit stopped the previous run on page 2, and this run,
\* started from the cursor it left, has fetched page 2 and then page 3.
C4_Witness == run.prev_limit_page = 2 /\ run.pages = <<2, 3>>

\* C5: a run that stops because the feed is exhausted leaves the cursor
\* pointing at the last page it walked.
C5_SelfCursorAtEnd ==
    run.stop = "exhausted" => CursorAt(Last(run.pages))

GoodDetail(d) == d.status = "ACTIVE" /\ d.has_ad

\* C6: with a threshold T, once a run has walked the feed to its end, every
\* item of a walked page whose summary timestamp is before T and whose detail
\* record is ACTIVE, has content and a detail timestamp at or after T was
\* fetched and committed.
C6_SummaryFilterNotHard ==
    (run.stop = "exhausted" /\ args.filter_date # 0) =>
        \A p \in Range(run.pages) : \A it \in Range(ItemsOfPage(p)) :
            (/\ SummaryTs(it) # 0 /\ SummaryTs(it) < args.filter_date
             /\ GoodDetail(FeedEntry(it.id))
             /\ DetailTs(FeedEntry(it.id)) >= args.filter_date)
            => it.id \in run.submitted /\ it.id \in run.committed

\* C7: in a run with threshold T, an item whose summary timestamp and detail
\* timestamp are both before T has no detail fetch and no commit.
C7_OldNeverFetched ==
    args.filter_date # 0 =>
        \A it \in AllItems :
            (/\ SummaryTs(it) # 0 /\ SummaryTs(it) < args.filter_date
             /\ DetailTs(FeedEntry(it.id)) # 0
             /\ DetailTs(FeedEntry(it.id)) < args.filter_date)
            => it.id \notin run.submitted /\ it.id \notin run.committed

\* C7 witness: a run with a threshold has walked page 3, which holds an item
\* with both timestamps before the threshold, to the end, and page 2 before
\* it, whose items it fetched.
C7_Witness ==
    /\ args.filter_date # 0
    /\ run.stop = "exhausted"
    /\ run.pages = <<2, 3>>
    /\ run.submitted # {}

\* C8: the loop body, handed a fetched detail record that is INACTIVE or has
\* no content, commits nothing and counts one more skipped, with or without a
\* threshold; and nothing a run has committed is INACTIVE or without content.
C8_StatusExclusion ==
    [][ /\ \A i \in DOMAIN FutById :
             (/\ i \notin ConsumedIds /\ i \in ConsumedIds'
              /\ FutById[i].st = "ok"
              /\ ~GoodDetail(FeedEntry(i)))
             => /\ db' = db
                /\ skipped_count' = skipped_count + 1
                /\ fetched_count' = fetched_count
        /\ \A i \in run'.committed : GoodDetail(FeedEntry(i))
      ]_vars

\* C8 witness: in a run with a threshold, the INACTIVE record of page 1,
\* whose timestamps lie after the threshold, was fetched and skipped.
C8_Witness ==
    /\ args.filter_date # 0
    /\ 12 \in ConsumedIds /\ FutById[12].st = "ok"
    /\ skipped_count = 1
    /\ run.committed = {}

\* The loop body is handed item i in this step and save_job raises on it:
\* the record was fetched, passes the filters, has an identity, and is not
\* among the committed records afterwards.
SaveRaised(i) ==
    /\ i \in DOMAIN FutById /\ i \notin ConsumedIds /\ i \in ConsumedIds'
    /\ FutById[i].st = "ok"
    /\ verdict(FeedEntry(i), args.filter_date) = "save"
    /\ FeedEntry(i).uuid # ""
    /\ i \notin run'.committed

\* C11: when a statement of save_job raises for a record, the store is left
\* exactly as it was before the call (the parent row and child rows of that
\* identity and every record committed earlier), the record is not counted
\* as saved, the run goes on, and the loop leaves the page only when every
\* other record of the page has been handed to the loop body.
C11_AtomicSave ==
    [][ \A i \in DOMAIN FutById :
          SaveRaised(i) =>
            /\ db' = db
            /\ fetched_count' = fetched_count
            /\ run'.stop = "running"
            /\ pc' \in {"collect", "after"}
            /\ pc' = "after" <=> ConsumedIds' = DOMAIN FutById
      ]_vars

\* C11 witness: record 11, committed by an earlier run with its location
\* row, was fetched again and its save raised; its rows are still stored and
\* the other record of the page, 12, was processed after it.
C11_Witness ==
    /\ 11 \in ConsumedIds /\ FutById[11].st = "ok" /\ 11 \notin run.committed
    /\ \E r \in db.nav_jobs : r.nav_uuid = "11"
    /\ \E r \in DOMAIN db.nav_job_locations : r.nav_uuid = "11"
    /\ ConsumedIds = {11, 12} /\ pc = "after"

\* The first page a run is to fetch, by priority: the override, else the
\* cursor found, else the first page of the feed when begin holds and the
\* last page when it does not.
PriorityStart(o, begin) ==
    IF o.start_page_id # 0 THEN o.start_page_id
    ELSE IF o.cursor # 0 THEN o.cursor
    ELSE IF begin THEN FirstPage ELSE LastPage

\* C13, as stated: the first page fetched is the override if given, else the
\* cursor's page if a cursor exists, else the earliest page when
\* --start-from-beginning is set and the most recent page when it is not.
C13_Priority ==
    (run.opts.given /\ run.pages # <<>>) =>
        run.pages[1] = PriorityStart(run.opts, run.opts.start_from_beginning)

\* C13, amended: the same priority, the anchor being the earliest page only
\* when --start-from-beginning is set together with --reset, and the most
\* recent page otherwise.
C13_PriorityBeginNeedsReset ==
    (run.opts.given /\ run.pages # <<>>) =>
        run.pages[1] = PriorityStart(run.opts, run.opts.start_from_beginning
                                               /\ run.opts.reset)

\* C13 witness: a run given --reset and --start-from-beginning and no
\* override has fetched the earliest page first.
C13_Witness ==
    /\ run.opts.given /\ run.opts.reset /\ run.opts.start_from_beginning
    /\ run.opts.start_page_id = 0
    /\ run.kind = "begin"
    /\ run.pages = <<FirstPage>>

\* C15: a detail fetch fails at most retries times, and only the failure
\* of attempt number retries makes the fetch fail; the loop body, handed a
\* failed fetch, writes nothing, counts nothing as saved, does not stop the
\* run and leaves the page only when every other fetch of the page has been
\* handed to it; and when the cursor advances past a page, every item of the
\* page that was fetched, passes the filters, has an identity and whose
\* commit does not raise has been committed.
C15_FetchRetries ==
    [][ /\ \A i \in DOMAIN FutById : FutById[i].attempt <= retries - 1
        /\ \A i \in DOMAIN FutById \cap DOMAIN FutById' :
              (FutById[i].st = "running" /\ FutById'[i].st = "failed")
              => FutById[i].attempt = retries - 1
        /\ \A i \in DOMAIN FutById :
              (i \notin ConsumedIds /\ i \in ConsumedIds' /\ FutById[i].st = "failed")
              => /\ db' = db
                 /\ fetched_count' = fetched_count
                 /\ run'.stop = "running"
                 /\ pc' \in {"collect", "after"}
                 /\ pc' = "after" <=> ConsumedIds' = DOMAIN FutById
        /\ (pc = "after" /\ pc' = "next") =>
              \A j \in DOMAIN FutById :
                 (/\ FutById[j].st = "ok"
                  /\ verdict(FeedEntry(j), args.filter_date) = "save"
                  /\ FeedEntry(j).uuid # ""
                  /\ ~FlakyStore(j))
                 => j \in run.committed
      ]_vars

\* C15 witness: on page 3 the fetch of item 33 failed after its third
\* attempt and was handed to the loop body first; the two other items of
\* the page were fetched and committed after that.
C15_Witness ==
    /\ page.id = 3 /\ pc = "after"
    /\ FutById[33].st = "failed" /\ FutById[33].attempt = retries - 1
    /\ ConsumedIds = {31, 32, 33}
    /\ run.committed = {31, 32}
    /\ fetched_count = 2

\* C16: once the limit is reached no queued detail fetch is started, and the
\* cursor is written for the page only when no detail fetch is in flight
\* any more.
C16_LimitDrain ==
    [][ limit_reached(args.limit, fetched_count) =>
          /\ \A i \in DOMAIN FutById \cap DOMAIN FutById' :
                ~(FutById[i].st = "queued" /\ FutById'[i].st = "running")
          /\ Len(run'.writes) = Len(run.writes) + 1 => Running = {}
      ]_vars

\* This step is a failed attempt of the request for a feed page.
PageAttemptFailed ==
    /\ pc = "next" /\ next_request(gen, page) # 0
    /\ pc' # "page"

\* C17: a failed request for a feed page is the first attempt for its
\* locator and is not followed by another one: it ends the run.
C17_PageFetchOnce ==
    [][ PageAttemptFailed => (attempt = 0 /\ pc' = "exit" /\ run'.stop = "aborted")
      ]_vars

\* C19: the loop body, handed a fetched detail record that passes the
\* filters but has no identity, writes nothing to the store, counts one more
\* skipped and none more saved, and is not stopped by the limit on account
\* of it.
C19_NoIdentityRejected ==
    [][ \A i \in DOMAIN FutById :
          (/\ i \notin ConsumedIds /\ i \in ConsumedIds'
           /\ FutById[i].st = "ok"
           /\ verdict(FeedEntry(i), args.filter_date) = "save"
           /\ FeedEntry(i).uuid = "")
          => /\ db' = db
             /\ skipped_count' = skipped_count + 1
             /\ fetched_count' = fetched_count
             /\ ~limit_reached(args.limit, fetched_count')
      ]_vars

Aborted == run.stop \in {"aborted", "aborted_store"}

\* The cursor of an aborted run is the last one the run wrote or, when it
\* wrote none and had started from the cursor, the one it started from.
AbortKeepsCursor ==
    Aborted =>
        /\ run.writes # <<>> => CursorAt(Last(run.writes).to)
        /\ (run.writes = <<>> /\ run.kind = "cursor") => CursorAt(run.resumed_from)

\* C20, as stated: a page-level error leaves the cursor at the last
\* successful write, and the run started next from the cursor does not start
\* after the page that was being requested or processed when the error
\* occurred, so that its forward walk skips neither that page nor one before
\* it.
C20_AbortResume ==
    /\ AbortKeepsCursor
    /\ (/\ run.opts.prev_abort.page # 0 /\ run.kind = "cursor"
        /\ run.pages # <<>>) =>
           run.pages[1] <= run.opts.prev_abort.page

\* C20, amended: the statement about the next run is made only when the
\* aborted run had started from the cursor or had written the cursor at
\* least once; the next run then fetches that very page first.
C20_AbortResumeTracked ==
    /\ AbortKeepsCursor
    /\ (/\ run.opts.prev_abort.page # 0 /\ run.opts.prev_abort.tracked
        /\ run.pages # <<>>) =>
           run.pages[1] = run.opts.prev_abort.page

\* C20 witness: the run before this one had written the cursor and was
\* aborted on page 2; this run, started from the cursor, has fetched page 2.
C20_Witness ==
    /\ run.opts.prev_abort = [page |-> 2, tracked |-> TRUE]
    /\ run.kind = "cursor"
    /\ run.pages = <<2>>

----------------------------------------------------------------------------
(* Detail records handed to save_job in SpecDB *)

\* A generated record is given by its identity and a shape: the sequence of
\* value indices its four child collections follow, so that a shape <<1, 1>>
\* repeats an entry and <<1, 2>> holds two entries that differ in one field
\* of the deduplication key (the postal code, the category name, level-2).
Shapes == SeqsUpTo({1, 2}, MaxChild)

Pick(vals, shape) == [i \in 1..Len(shape) |-> vals[shape[i]]]

MkJob(u, shape) ==
    [uuid |-> u, status |-> "ACTIVE", sistEndret |-> 0, has_ad |-> TRUE,
     ad_content |-> [title |-> "Utvikler", published |-> 5, updated |-> 0,
                     workLocations        |-> Pick(<<LocA, LocB>>, shape),
                     contactList          |-> Pick(<<ConA, ConB>>, shape),
                     categoryList         |-> Pick(<<CatA, CatB>>, shape),
                     occupationCategories |-> Pick(<<OccA, OccB>>, shape)]]

\* The records of SpecDB, one of them without an identity.
JobInputs ==
    { MkJob(u, s) : u \in Uuids, s \in Shapes } \cup { MkJob("", <<1>>) }

----------------------------------------------------------------------------
(* SpecDB: any sequence of save_job calls on an initially empty store *)

InitDB == IdleDB /\ IdleRun /\ IdleCursor /\ PastStartup

SaveJobCall(job, fail_at) ==
    LET r == save_job(db, job, clock, fail_at)
    IN  /\ nSaves < MaxSaves
        /\ db' = r.db
        /\ clock' = clock + 1
        /\ nSaves' = nSaves + 1
        /\ lastCall' =
              [uuid |-> job.uuid, outcome |-> r.outcome,
               \* this call commits the record the previous call committed
               repeat |-> /\ r.outcome = "committed"
                          /\ lastCall.outcome = "committed"
                          /\ lastCall.uuid = job.uuid
                          /\ latest[job.uuid] = <<job>>]
        /\ latest' = IF r.outcome = "committed"
                      THEN [latest EXCEPT ![job.uuid] = <<job>>]
                      ELSE latest
        /\ UNCHANGED <<runvars, curvars, boot>>

NextDB ==
    \E job \in JobInputs, fail_at \in 0..Len(Statements) : SaveJobCall(job, fail_at)

SpecDB == InitDB /\ [][NextDB]_vars

----------------------------------------------------------------------------
(* Properties of the persistence engine, checked under SpecDB *)

RowsOf(rows, u) == [r \in {x \in DOMAIN rows : x.nav_uuid = u} |-> rows[r]]

ParentsOf(jobs, u) == {r \in jobs : r.nav_uuid = u}

NoRepeats(rows) == \A r \in DOMAIN rows : rows[r] = 1

LocRow(u, e) == [nav_uuid |-> u, address |-> e.address, city |-> e.city,
                 postal_code |-> e.postalCode, county |-> e.county,
                 municipal |-> e.municipal, country |-> e.country]
ConRow(u, e) == [nav_uuid |-> u, name |-> e.name, email |-> e.email,
                 phone |-> e.phone, role |-> e.role, title |-> e.title]
CatRow(u, e) == [nav_uuid |-> u, category_type |-> e.categoryType,
                 code |-> e.code, name |-> e.name]
OccRow(u, e) == [nav_uuid |-> u, level1 |-> e.level1, level2 |-> e.level2]

\* C9: save_job is idempotent.  A call that commits the record the call just
\* before it committed leaves the parent table and the four child tables
\* exactly as the first commit left them: no second parent row, no duplicated
\* child row, no changed column, created_at included.
C9_Idempotent == [][lastCall'.repeat => db' = db]_vars

\* C9 witness: a record with child entries has been committed twice in a
\* row, at two different times.
C9_Witness ==
    /\ lastCall.repeat
    /\ RowsOf(db.nav_job_locations, lastCall.uuid) # EmptyBag
    /\ \E r \in ParentsOf(db.nav_jobs, lastCall.uuid) : r.created_at < clock - 1

\* C10: after any sequence of save_job calls, each identity has exactly one
\* parent row once it was committed (none before), and its stored locations,
\* categories and occupations are the distinct entries of the record
\* committed last for it, each stored once, its contacts that record's
\* contact entries one for one; nothing of an earlier version is left, also
\* when the newer collection is empty.
C10_ChildrenOfLatest ==
    \A u \in Uuids :
        LET parents == ParentsOf(db.nav_jobs, u)
            locs    == RowsOf(db.nav_job_locations, u)
            cons    == RowsOf(db.nav_job_contacts, u)
            cats    == RowsOf(db.nav_job_categories, u)
            occs    == RowsOf(db.nav_job_occupations, u)
        IN  IF latest[u] = <<>>
            THEN parents = {} /\ locs = EmptyBag /\ cons = EmptyBag
                 /\ cats = EmptyBag /\ occs = EmptyBag
            ELSE LET ad == latest[u][1].ad_content
                 IN  /\ Cardinality(parents) = 1
                     /\ DOMAIN locs = {LocRow(u, e) : e \in Range(ad.workLocations)}
                     /\ NoRepeats(locs)
                     /\ cons = SeqToBag([k \in 1..Len(ad.contactList) |->
                                           ConRow(u, ad.contactList[k])])
                     /\ DOMAIN cats = {CatRow(u, e) : e \in Range(ad.categoryList)}
                     /\ NoRepeats(cats)
                     /\ DOMAIN occs =
                          {OccRow(u, e) : e \in Range(ad.occupationCategories)}
                     /\ NoRepeats(occs)

\* C10 witness: an identity was committed with child entries and then again
\* with empty collections, while another identity keeps its own rows.
C10_Witness ==
    /\ lastCall.outcome = "committed" /\ ~lastCall.repeat
    /\ \E r \in ParentsOf(db.nav_jobs, lastCall.uuid) : r.created_at < clock - 1
    /\ latest[lastCall.uuid][1].ad_content.workLocations = <<>>
    /\ RowsOf(db.nav_job_locations, lastCall.uuid) = EmptyBag
    /\ db.nav_job_locations # EmptyBag

\* C18: for the record committed last for an identity, the number of stored
\* location rows is the number of distinct (address, city, postal code,
\* country, municipality, county) among its location entries, so that equal
\* entries give one row and entries differing in the postal code give two;
\* likewise categories by (category type, code, name) and occupations by
\* (level-1, level-2); the number of stored contact rows is the number of
\* contact entries.
C18_ChildDedup ==
    \A u \in Uuids :
        latest[u] # <<>> =>
            LET ad == latest[u][1].ad_content
            IN  /\ BagCardinality(RowsOf(db.nav_job_locations, u)) =
                     Cardinality({<<e.address, e.city, e.postalCode, e.country,
                                    e.municipal, e.county>> :
                                     e \in Range(ad.workLocations)})
                /\ BagCardinality(RowsOf(db.nav_job_categories, u)) =
                     Cardinality({<<e.categoryType, e.code, e.name>> :
                                     e \in Range(ad.categoryList)})
                /\ BagCardinality(RowsOf(db.nav_job_occupations, u)) =
                     Cardinality({<<e.level1, e.level2>> :
                                     e \in Range(ad.occupationCategories)})
                /\ BagCardinality(RowsOf(db.nav_job_contacts, u)) =
                     Len(ad.contactList)

\* C18 witness: one identity was committed with the same location, category,
\* occupation and contact twice (one row each, but two contact rows), the
\* other with two locations that differ in the postal code only (two rows).
C18_Witness ==
    /\ latest["u1"] # <<>> /\ latest["u2"] # <<>>
    /\ latest["u1"][1].ad_content.workLocations = <<LocA, LocA>>
    /\ latest["u1"][1].ad_content.contactList = <<ConA, ConA>>
    /\ BagCardinality(RowsOf(db.nav_job_locations, "u1")) = 1
    /\ BagCardinality(RowsOf(db.nav_job_contacts, "u1")) = 2
    /\ latest["u2"][1].ad_content.workLocations = <<LocA, LocB>>
    /\ BagCardinality(RowsOf(db.nav_job_locations, "u2")) = 2

----------------------------------------------------------------------------
(* Properties of a run and the store together, checked under Spec *)

\* C21: page 1 holds the item refs 11 and 12; the detail of 11 is ACTIVE
\* with the same location entry twice, that of 12 is INACTIVE.  A run
\* without limit and without threshold that starts on page 1 and has
\* finished it, the commit of 11 not having raised, has, whatever the order
\* in which the two fetches completed: one job row for 11 with exactly one
\* location row, no job row for 12, the cursor at the next locator of page
\* 1, one record counted as saved and one as skipped.
C21_EndToEnd ==
    (/\ args.limit = 0 /\ args.filter_date = 0
     /\ run.pages = <<1>> /\ pc = "next"
     /\ 11 \in run.committed)
    => /\ Cardinality(ParentsOf(db.nav_jobs, "11")) = 1
       /\ BagCardinality(RowsOf(db.nav_job_locations, "11")) = 1
       /\ ParentsOf(db.nav_jobs, "12") = {}
       /\ CursorAt(FeedPage(1).next_id)
       /\ fetched_count = 1
       /\ skipped_count = 1

\* C21 witness: such a run has finished page 1 on an empty store.
C21_Witness ==
    /\ args.limit = 0 /\ args.filter_date = 0
    /\ run.pages = <<1>> /\ pc = "next"
    /\ ConsumedIds = {11, 12}
    /\ db.nav_jobs = {upsert_params(FeedEntry(11), clock)}
    /\ DOMAIN db.nav_job_locations = {LocRow("11", LocA)}
    /\ fetched_count = 1 /\ skipped_count = 1

\* The number of distinct item ids on the pages of a walk, page by page.
RECURSIVE DistinctOnPages(_)
DistinctOnPages(pages) ==
    IF pages = <<>> THEN 0
    ELSE Cardinality({it.id : it \in Range(ItemsOfPage(pages[1]))})
         + DistinctOnPages(Tail(pages))

\* C22: the detail fetches submitted for a page are for pairwise different
\* item ids, each an id of the page in progress, so an id is fetched and
\* handed to the loop body at most once per visit; and a run has counted,
\* saved and skipped together, at most one record per distinct id of each
\* page visit.
C22_OncePerPage ==
    /\ \A j, k \in DOMAIN futures :
          futures[j].id = futures[k].id => j = k
    /\ pc \in {"collect", "after"} =>
          /\ \A k \in DOMAIN futures :
                futures[k].id \in {it.id : it \in Range(page.items)}
          /\ Cardinality(consumed)
                <= Cardinality({it.id : it \in Range(page.items)})
    /\ fetched_count + skipped_count <= DistinctOnPages(run.pages)

\* C22 witness: page 1 lists item 11 twice; one fetch was submitted for it,
\* and the page ended with one record saved and one skipped.
C22_Witness ==
    /\ page.id = 1 /\ pc = "after"
    /\ Len(page.items) = 3
    /\ Len(futures) = 2
    /\ consumed = {1, 2}
    /\ run.committed = {11}
    /\ fetched_count = 1 /\ skipped_count = 1

\* C23: at the end of a run that walked the feed to its end without
\* hitting the limit, the records counted as saved and as skipped are
\* together as many as the distinct item references of the pages it
\* walked, failed fetches and commits that raised included.
C23_EveryItemCounted ==
    (pc = "exit" /\ run.stop = "exhausted") =>
        fetched_count + skipped_count = DistinctOnPages(run.pages)

\* The rows of a store that belong to identity u, and the rest of it.
SliceOf(d, u) ==
    [nav_jobs            |-> ParentsOf(d.nav_jobs, u),
     nav_job_locations   |-> RowsOf(d.nav_job_locations, u),
     nav_job_contacts    |-> RowsOf(d.nav_job_contacts, u),
     nav_job_categories  |-> RowsOf(d.nav_job_categories, u),
     nav_job_occupations |-> RowsOf(d.nav_job_occupations, u)]

RowsNotOf(rows, u) == [r \in {x \in DOMAIN rows : x.nav_uuid # u} |-> rows[r]]

RestOf(d, u) ==
    [nav_jobs            |-> {r \in d.nav_jobs : r.nav_uuid # u},
     nav_job_locations   |-> RowsNotOf(d.nav_job_locations, u),
     nav_job_contacts    |-> RowsNotOf(d.nav_job_contacts, u),
     nav_job_categories  |-> RowsNotOf(d.nav_job_categories, u),
     nav_job_occupations |-> RowsNotOf(d.nav_job_occupations, u)]

\* The loop body, handed the future at position k in this step, changes
\* only the rows of that record's identity, to what the record alone
\* determines, and the counts by what the record and its outcome determine.
ConsumeIsLocal(k) ==
    LET e == FeedEntry(futures[k].id)
        ok == futures[k].st = "ok"
        what == verdict(e, args.filter_date)
    IN  /\ RestOf(db', e.uuid) = RestOf(db, e.uuid)
        /\ db' # db =>
              SliceOf(db', e.uuid) = SliceOf(save_job_txn(EmptyDb, e, clock), e.uuid)
        /\ skipped_count' = skipped_count
              + (IF ok /\ what \in {"skip_status", "skip_date"} THEN 1 ELSE 0)
        /\ fetched_count' = fetched_count
              + (IF /\ ok /\ what = "save"
                    /\ e.uuid = "" \/ futures[k].id \in run'.committed
                 THEN 1 ELSE 0)

\* Two commits of different records of the page give the same store in
\* either order.
CommitsCommute ==
    pc = "collect" =>
        \A j, k \in DOMAIN futures :
            j # k =>
              LET a == FeedEntry(futures[j].id)
                  b == FeedEntry(futures[k].id)
              IN  save_job_txn(save_job_txn(db, a, clock), b, clock)
                    = save_job_txn(save_job_txn(db, b, clock), a, clock)

\* Every fetch submitted for the page was handed to the loop body once, and
\* on the first page of a run the counts are those of the records of the
\* page and their outcomes.
PageResultFixed ==
    /\ consumed = DOMAIN futures
    /\ Len(run.pages) = 1 =>
          /\ skipped_count = prefilter_skipped(page, args.filter_date)
                + Cardinality({k \in DOMAIN futures :
                      /\ futures[k].st = "ok"
                      /\ verdict(FeedEntry(futures[k].id), args.filter_date)
                            \in {"skip_status", "skip_date"}})
          /\ fetched_count =
                Cardinality({k \in DOMAIN futures :
                      /\ futures[k].st = "ok"
                      /\ verdict(FeedEntry(futures[k].id), args.filter_date) = "save"
                      /\ \/ FeedEntry(futures[k].id).uuid = ""
                         \/ futures[k].id \in run.committed})

\* C25 as stated: when the loop has left a page, the store and the counts
\* are the same for every order in which the fetches completed: every
\* submitted fetch was processed once, each with an effect that depends on
\* its record alone, and commits of different records commute.
C25_OrderIndependent ==
    /\ [](pc = "after" => PageResultFixed)
    /\ []CommitsCommute
    /\ [][\A k \in DOMAIN futures :
            (k \notin consumed /\ k \in consumed') => ConsumeIsLocal(k)]_vars

\* C25 amended: the same for a page the loop has left without the limit
\* having been reached.
C25_OrderIndependentNoLimit ==
    /\ []((pc = "after" /\ ~limit_reached(args.limit, fetched_count))
            => PageResultFixed)
    /\ []CommitsCommute
    /\ [][\A k \in DOMAIN futures :
            (k \notin consumed /\ k \in consumed') => ConsumeIsLocal(k)]_vars

\* C25 witness: page 3, the first page of a run without limit, was left
\* with its three fetches handed to the loop body, two records committed
\* and one skipped.
C25_Witness ==
    /\ pc = "after" /\ args.limit = 0
    /\ run.pages = <<3>>
    /\ run.committed = {31, 32}
    /\ fetched_count = 2 /\ skipped_count = 1
    /\ consumed = DOMAIN futures

\* C27: the store changes only in a step in which the loop of the main
\* thread is handed one completed future, and by the one commit of that
\* record; a step of a pool worker changes the state of a fetch and leaves
\* the store as it is, so no two record transactions are open at once.
C27_SerializedCommits ==
    [][ /\ db' # db =>
             /\ pc = "collect"
             /\ futures' = futures
             /\ \E k \in DOMAIN futures :
                   /\ consumed' = consumed \cup {k} /\ k \notin consumed
                   /\ RestOf(db', FeedEntry(futures[k].id).uuid)
                        = RestOf(db, FeedEntry(futures[k].id).uuid)
                   /\ futures[k].id \in run'.committed
        /\ futures' # futures => db' = db
      ]_vars

\* C27 witness: the main thread has committed a record of the page and a
\* pool worker is fetching another one.
C27_Witness ==
    /\ pc = "collect"
    /\ run.committed # {}
    /\ db.nav_jobs # {}
    /\ Running # {}

\* C28: a run with limit N >= 1 that resumed from the cursor at page P and
\* was stopped by the limit has moved the cursor past P, so that runs
\* repeated from the persisted cursor get past every page and reach the end
\* of the feed, however many records of a page can be saved.
C28_LimitedRunsProgress ==
    (/\ run.kind = "cursor" /\ args.limit >= 1
     /\ pc = "exit" /\ run.stop = "limit")
    => ~CursorAt(run.resumed_from)

C30_NothingLostBehindCursor ==
    \A k \in 1..Len(run.writes) :
        run.writes[k].to # run.writes[k].at =>
            \A it \in Range(ItemsOfPage(run.writes[k].at)) :
                (/\ ~summary_too_old(it, args.filter_date)
                 /\ verdict(FeedEntry(it.id), args.filter_date) = "save"
                 /\ FeedEntry(it.id).uuid # "")
                => ParentsOf(db.nav_jobs, FeedEntry(it.id).uuid) # {}

----------------------------------------------------------------------------
(* SpecFair: runs without --limit in which a started run is not left
   standing: the main thread and the pool workers are scheduled as long as
   one of them has a step to take. *)

FairArgs == {a \in ArgSets : a.limit = 0}

RunStep ==
    \/ PageRequestOk
    \/ PageRequestFail
    \/ WalkerStop
    \/ ProcessPage
    \/ \E i \in DOMAIN futures : StartFetch(i)
    \/ \E i \in DOMAIN futures : FetchOk(i)
    \/ \E i \in DOMAIN futures : FetchFail(i)
    \/ \E i \in DOMAIN futures :
         \E fail_at \in (IF FlakyStore(futures[i].id)
                          THEN 0..Len(Statements) ELSE {0}) :
             Consume(i, fail_at)
    \/ AfterPage
    \/ CursorStoreFail
    \/ Exit

NextFair ==
    \/ \E a \in FairArgs : StartRun(a)
    \/ RunStep

SpecFair == Init /\ [][NextFair]_vars /\ WF_vars(RunStep)

\* The pages of the chain from page s to the last one, in order.
ChainFrom(s) == [k \in 1..(LastPage - s + 1) |-> s + k - 1]

\* C24: the pages a run has fetched follow the chain of next pointers, each
\* the next_id of the one before; a page is fetched only when the loop has
\* asked the walker for it, every fetch submitted for the page before it
\* having been handed to the loop body; the walker stops only behind a page
\* without next pointer, and then the run has fetched every page from its
\* start to the last exactly once; and a run without limit is eventually
\* over.
C24_WalkerTerminates ==
    /\ [](\A k \in 1..(Len(run.pages) - 1) :
             /\ FeedPage(run.pages[k]).next_id # 0
             /\ run.pages[k + 1] = FeedPage(run.pages[k]).next_id)
    /\ [](run.stop = "exhausted" =>
             /\ run.pages # <<>>
             /\ FeedPage(Last(run.pages)).next_id = 0
             /\ run.pages = ChainFrom(run.pages[1]))
    /\ [][Len(run'.pages) = Len(run.pages) + 1 =>
            /\ pc = "next"
            /\ consumed = DOMAIN futures
            /\ run.pages # <<>> => Last(run.pages) = page.id]_vars
    /\ (pc # "idle" /\ args.limit = 0)
          ~> (pc = "exit" /\ run.stop \in {"exhausted", "aborted", "aborted_store"})

\* C24 witness: a run without limit started at the first page has fetched
\* the three pages of the chain in order and the walker has stopped.
C24_Witness ==
    /\ args.limit = 0
    /\ run.stop = "exhausted" /\ pc = "exit"
    /\ run.pages = <<1, 2, 3>>

----------------------------------------------------------------------------
(* SpecStartup: one start of main() for every configuration and schema *)

Tokens == {"", "token"}

DbUrls == {"", "url"}

StartDates == {0, 10, -1}

\* The columns a table has before the start: none of the required ones, all
\* but one, all.
ColumnSets(required) ==
    {{}, required} \cup {required \ {c} : c \in required}

InitStartup ==
    /\ IdleDB /\ IdleRun /\ IdleCursor
    /\ boot \in [api_token : Tokens, db_url : DbUrls, start_date : StartDates,
                  feed_state_columns : ColumnSets(feed_state_required),
                  job_columns : ColumnSets(job_required),
                  done : {FALSE}, outcome : {"none"}]

Startup ==
    /\ ~boot.done
    /\ boot' = startup(boot)
    /\ UNCHANGED <<dbvars, runvars, curvars>>

NextStartup == Startup

SpecStartup == InitStartup /\ [][NextStartup]_vars

FatalConfiguration ==
    boot.api_token = "" \/ boot.db_url = "" \/ boot.start_date = -1

\* C26: a start of main() stops before start resolution, and so before
\* any page is fetched and any record or cursor is written, exactly when the
\* API token or the database URL is missing or the date argument is invalid;
\* with a complete configuration it gets through the startup steps to start
\* resolution, the two tables having their required columns.
C26_StartupGate ==
    boot.done =>
        /\ boot.outcome # "resolving" <=> FatalConfiguration
        /\ ~FatalConfiguration =>
              /\ boot.outcome = "resolving"
              /\ feed_state_required \subseteq boot.feed_state_columns
              /\ job_required \subseteq boot.job_columns

----------------------------------------------------------------------------
(* SpecCursor: one writer of table nav_feed_state, statement by statement, *)
(* and a reader on another connection                                      *)

CursorUrls == {FeedUrl(p) : p \in 1..NumPages}

\* What the reader's connection reads in the current state.
ReaderView ==
    IF txn.phase = "none" THEN feed_state ELSE visible(feed_state, txn.work)

\* main.py 60-65: --reset deletes the cursor in a transaction of its own.
CursorReset ==
    /\ txn.phase = "none"
    /\ feed_state' = feed_delete_all(feed_state)
    /\ UNCHANGED <<dbvars, boot, pc, args, gen, page, attempt, futures, consumed,
                   fetched_count, skipped_count, run, txn, observed>>

\* update_feed_state enters "with self.engine.begin() as conn".
BeginUpdate(next_url) ==
    /\ txn.phase = "none"
    /\ txn' = [phase |-> "begun", next_url |-> next_url, work |-> feed_state]
    /\ UNCHANGED <<dbvars, boot, runvars, observed>>

\* The DELETE of update_feed_state runs inside the transaction.
TxnDelete ==
    /\ txn.phase = "begun"
    /\ txn' = [txn EXCEPT !.phase = "deleted", !.work = feed_delete_all(@)]
    /\ UNCHANGED <<dbvars, boot, runvars, observed>>

\* The INSERT of update_feed_state runs inside the transaction.
TxnInsert ==
    /\ txn.phase = "deleted"
    /\ txn' = [txn EXCEPT !.phase = "inserted",
                          !.work = feed_insert(@, txn.next_url)]
    /\ UNCHANGED <<dbvars, boot, runvars, observed>>

\* Leaving the with block commits the transaction.
TxnCommit ==
    /\ txn.phase = "inserted"
    /\ feed_state' = txn.work
    /\ txn' = NoTxn
    /\ UNCHANGED <<dbvars, boot, pc, args, gen, page, attempt, futures, consumed,
                   fetched_count, skipped_count, run, observed>>

\* A statement raises (the store is unreachable): the transaction is rolled
\* back.
TxnRaise ==
    /\ txn.phase \in {"begun", "deleted"}
    /\ feed_state' = rollback(feed_state, txn.work)
    /\ txn' = NoTxn
    /\ UNCHANGED <<dbvars, boot, pc, args, gen, page, attempt, futures, consumed,
                   fetched_count, skipped_count, run, observed>>

\* A reader runs the SELECT of get_last_feed_state on its own connection.
ReaderSelect ==
    /\ observed' = [made      |-> TRUE,
                    rows      |-> Len(ReaderView),
                    next_url  |-> get_last_feed_state(ReaderView).next_url,
                    phase     |-> txn.phase,
                    committed |-> Len(feed_state)]
    /\ UNCHANGED <<dbvars, boot, runvars, txn>>

NextCursor ==
    \/ CursorReset
    \/ \E u \in CursorUrls : BeginUpdate(u)
    \/ TxnDelete
    \/ TxnInsert
    \/ TxnCommit
    \/ TxnRaise
    \/ ReaderSelect

SpecCursor == Init /\ [][NextCursor]_vars

\* C12: the committed cursor table never holds more than one row; the
\* transaction of update_feed_state ends up with exactly the one new row; a
\* reader never reads more than one row, and a reader whose SELECT falls
\* between the DELETE and the INSERT of update_feed_state, while a cursor was
\* stored, reads that one row, not zero.
C12_OneCursorRow ==
    /\ Len(feed_state) <= 1
    /\ txn.phase = "inserted" =>
           txn.work = update_feed_state(feed_state, txn.next_url)
    /\ observed.rows <= 1
    /\ (observed.phase \in {"deleted", "inserted"} /\ observed.committed = 1)
           => observed.rows = 1

\* C12 witness: a reader read the stored cursor (page 1) between the DELETE
\* and the INSERT of the update that has since put the cursor on page 2.
C12_Witness ==
    /\ observed.phase = "deleted"
    /\ observed.rows = 1 /\ observed.next_url = FeedUrl(1)
    /\ txn = NoTxn
    /\ feed_state = <<[next_url |-> FeedUrl(2)]>>

----------------------------------------------------------------------------
(* SpecPool: runs of main() that start on the wide page, by override *)

PoolArgs ==
    [limit : {0}, reset : {TRUE}, start_from_beginning : {FALSE},
     filter_date : {10}, start_page_id : {WidePage}]

NextPool ==
    \/ \E a \in PoolArgs : StartRun(a)
    \/ PageRequestOk
    \/ PageRequestFail
    \/ WalkerStop
    \/ ProcessPage
    \/ \E i \in DOMAIN futures : StartFetch(i)
    \/ \E i \in DOMAIN futures : FetchOk(i)
    \/ \E i \in DOMAIN futures : FetchFail(i)
    \/ \E i \in DOMAIN futures :
         \E fail_at \in (IF FlakyStore(futures[i].id)
                          THEN 0..Len(Statements) ELSE {0}) :
             Consume(i, fail_at)
    \/ AfterPage
    \/ CursorStoreFail
    \/ Exit

SpecPool == Init /\ [][NextPool]_vars

\* C14: in every state of a run at most MAX_WORKERS detail fetches are in
\* flight, and each of them is the fetch of an item of the page the run is
\* processing.
C14_BoundedPool ==
    /\ Cardinality(Running) <= MAX_WORKERS
    /\ {futures[k].id : k \in Running} \subseteq {it.id : it \in Range(page.items)}

\* C14 witness: on the wide page every worker is busy and one submitted
\* fetch is waiting in the queue.
C14_Witness ==
    /\ page.id = WidePage
    /\ Cardinality(Running) = MAX_WORKERS
    /\ \E i \in DOMAIN futures : futures[i].st = "queued"

====
